---- MODULE Spec2Model ----
(***************************************************************************)
(* Model of rust/scripts/plot_benchstat.py: main() reads a benchstat       *)
(* report, parse_benchstat_output turns it into a table                    *)
(*   benchmark name -> (interpreter -> duration in ns)                     *)
(* and plot_benchmarks renders one bar chart per benchmark.                *)
(*                                                                         *)
(* Text is a sequence of one-character strings.  Two characters of the     *)
(* source are written in ASCII here: the micro sign (U+00B5) is "u" and    *)
(* the box-drawing vertical bar (U+2502) is "|".  No input of the model    *)
(* uses "u" or "|" in any other role.                                      *)
(*                                                                         *)
(* A Python float is modelled as an exact decimal <<m, e>> = m * 10^e,     *)
(* normalised so that m has no trailing zero (<<0, 0>> is zero).  Binary   *)
(* rounding of floats is not modelled.                                     *)
(*                                                                         *)
(* A Python dict is a sequence of <<key, value>> pairs in insertion        *)
(* order, with pairwise distinct keys.                                     *)
(***************************************************************************)
EXTENDS Integers, Sequences, FiniteSets, TLC

\* ------------------------------------------------------------------------
\* Characters
\* ------------------------------------------------------------------------

Whitespace == {" ", "\n", "\t"}

DigitChars == {"0", "1", "2", "3", "4", "5", "6", "7", "8", "9"}

DigitVal(c) ==
    CASE c = "0" -> 0 [] c = "1" -> 1 [] c = "2" -> 2 [] c = "3" -> 3
      [] c = "4" -> 4 [] c = "5" -> 5 [] c = "6" -> 6 [] c = "7" -> 7
      [] c = "8" -> 8 [] c = "9" -> 9

DigitChar(d) == <<"0", "1", "2", "3", "4", "5", "6", "7", "8", "9">>[d + 1]

\* the character class [\d\.] of time_pattern
NumChars == DigitChars \cup {"."}

\* the alternation (n|u|m|s) of time_pattern
UnitChars == {"n", "u", "m", "s"}

\* ------------------------------------------------------------------------
\* Decimal numbers
\* ------------------------------------------------------------------------

RECURSIVE Pow10(_)
Pow10(n) == IF n = 0 THEN 1 ELSE 10 * Pow10(n - 1)

RECURSIVE NumDigits(_)
NumDigits(m) == IF m < 10 THEN 1 ELSE 1 + NumDigits(m \div 10)

RECURSIVE Norm(_)
Norm(t) ==
    IF t[1] = 0 THEN <<0, 0>>
    ELSE IF t[1] % 10 = 0 THEN Norm(<<t[1] \div 10, t[2] + 1>>)
    ELSE t

\* t * 10^k
Scale(t, k) == Norm(<<t[1], t[2] + k>>)

\* Python's  t > 10^k  on the exact decimal t
GreaterThanPow10(t, k) ==
    /\ t[1] > 0
    /\ NumDigits(t[1]) + t[2] - 1 >= k
    /\ ~(t[1] = 1 /\ t[2] = k)

\* ------------------------------------------------------------------------
\* String functions of the Python library used by the script
\* ------------------------------------------------------------------------

\* s[a:b] with 1-based inclusive bounds
Slice(s, a, b) == IF a > b THEN <<>> ELSE SubSeq(s, a, b)

\* s[n:]
DropFirst(s, n) == IF n >= Len(s) THEN <<>> ELSE SubSeq(s, n + 1, Len(s))

RECURSIVE LStrip(_)
LStrip(s) ==
    IF s # <<>> /\ Head(s) \in Whitespace THEN LStrip(Tail(s)) ELSE s

RECURSIVE RStrip(_)
RStrip(s) ==
    IF s # <<>> /\ s[Len(s)] \in Whitespace
    THEN RStrip(SubSeq(s, 1, Len(s) - 1))
    ELSE s

\* str.strip()
Strip(s) == RStrip(LStrip(s))

\* the first place at or after k where the string holds c, which it does
RECURSIVE FindFrom(_, _, _)
FindFrom(s, c, k) == IF s[k] = c THEN k ELSE FindFrom(s, c, k + 1)

\* str.split(sep) for a one-character separator: always at least one piece
RECURSIVE Split(_, _)
SplitAt(s, sep, p) == <<Slice(s, 1, p - 1)>> \o Split(DropFirst(s, p), sep)

Split(s, sep) ==
    IF \A k \in 1..Len(s) : s[k] # sep THEN <<s>>
    ELSE SplitAt(s, sep, FindFrom(s, sep, 1))

\* str.splitlines(): like split on the line break, but no piece for the
\* empty text and none after a final line break
Splitlines(s) ==
    IF s = <<>> THEN <<>>
    ELSE IF s[Len(s)] = "\n" THEN Split(SubSeq(s, 1, Len(s) - 1), "\n")
    ELSE Split(s, "\n")

\* length of the whitespace run at the head of s
RECURSIVE WsRun(_)
WsRun(s) ==
    IF s # <<>> /\ Head(s) \in Whitespace THEN 1 + WsRun(Tail(s)) ELSE 0

\* re.split(r'\s{2,}', s): the separators are the maximal whitespace runs
\* of length two or more
RECURSIVE ReSplitAcc(_, _)
ReSplitAcc(s, cur) ==
    IF s = <<>> THEN <<cur>>
    ELSE IF WsRun(s) >= 2
         THEN <<cur>> \o ReSplitAcc(DropFirst(s, WsRun(s)), <<>>)
    ELSE ReSplitAcc(Tail(s), Append(cur, Head(s)))

ReSplit(s) == ReSplitAcc(s, <<>>)

\* length of the [\d\.] run at the head of s
RECURSIVE NumRun(_)
NumRun(s) ==
    IF s # <<>> /\ Head(s) \in NumChars THEN 1 + NumRun(Tail(s)) ELSE 0

NoMatch == [found |-> FALSE]

\* re.search(time_pattern, s): scan the start positions from the left; at
\* a start position [\d\.]+ takes the whole run of number characters, and
\* the match succeeds when a unit character follows the run (giving back
\* characters of the run cannot succeed, a number character follows them)
RECURSIVE ReSearch(_)
ReSearch(s) ==
    IF s = <<>> THEN NoMatch
    ELSE LET r == NumRun(s) IN
         IF r >= 1 /\ r < Len(s) /\ s[r + 1] \in UnitChars
         THEN [found |-> TRUE, group1 |-> SubSeq(s, 1, r), group2 |-> s[r + 1]]
         ELSE ReSearch(Tail(s))

NumDots(s) == Cardinality({k \in 1..Len(s) : s[k] = "."})

\* float(s) raises ValueError unless s is digits with at most one point
\* and at least one digit
FloatOk(s) == NumDots(s) <= 1 /\ Len(s) - NumDots(s) >= 1

RECURSIVE DigitsValue(_, _)
DigitsValue(s, acc) ==
    IF s = <<>> THEN acc
    ELSE IF Head(s) = "." THEN DigitsValue(Tail(s), acc)
    ELSE DigitsValue(Tail(s), 10 * acc + DigitVal(Head(s)))

RECURSIVE DotPos(_)
DotPos(s) == IF s = <<>> \/ Head(s) = "." THEN 1 ELSE 1 + DotPos(Tail(s))

\* float(s) for a string that satisfies FloatOk
Float(s) ==
    LET frac == IF NumDots(s) = 0 THEN 0 ELSE Len(s) - DotPos(s)
    IN  Norm(<<DigitsValue(s, 0), -frac>>)

\* str(n) for a natural number
RECURSIVE IntToStr(_)
IntToStr(n) ==
    IF n < 10 THEN <<DigitChar(n)>>
    ELSE Append(IntToStr(n \div 10), DigitChar(n % 10))

\* str.replace(old, new) for one-character old and new
Replace(s, old, new) == [k \in 1..Len(s) |-> IF s[k] = old THEN new ELSE s[k]]

\* ------------------------------------------------------------------------
\* dict
\* ------------------------------------------------------------------------

DictKeys(d) == [k \in 1..Len(d) |-> d[k][1]]

DictHas(d, key) == \E k \in 1..Len(d) : d[k][1] = key

DictGet(d, key) == d[CHOOSE k \in 1..Len(d) : d[k][1] = key][2]

\* a store that moves a present key to the end
DictSet_MovesKeyToEnd(d, key, value) ==
    Append(SelectSeq(d, LAMBDA e : e[1] # key), <<key, value>>)

\* d[key] = value: a present key keeps its place, a new key goes last
DictSet(d, key, value) ==
    IF DictHas(d, key)
    THEN [k \in 1..Len(d) |-> IF d[k][1] = key THEN <<key, value>> ELSE d[k]]
    ELSE Append(d, <<key, value>>)

\* ------------------------------------------------------------------------
\* Reports the model reads
\* ------------------------------------------------------------------------

\* most benchmark rows of one report
MaxRows == 3

Sp2 == <<" ", " ">>

PlainConfigLine == <<"g", "o", "o", "s">>

RowLikeConfigLine == <<"P">> \o Sp2 \o <<"1", "n">>

PlainUnitLine == <<" ", "|", " ", "s", "e", "c", "/", "o", "p", " ", "|">>

RowLikeUnitLine == <<"S">> \o Sp2 \o <<"1", "n">>

HdrABC == <<" ", "|", " ", "A", " ", "|", " ", "B", " ", "|", " ", "C", " ", "|">>

HdrA == <<"|", " ", "A", " ", "|">>

HdrNoBar == <<"A", " ", "B">>

HdrDup == <<"|", " ", "A", " ", "|", " ", "A", " ", "|">>

RowX == <<"X">> \o Sp2 \o <<"1", "u">> \o Sp2 \o <<"1", "s">>

RowSlash ==
    <<"a", "/", "b">> \o Sp2 \o <<"~">> \o Sp2 \o <<"1", ".", "5", "m">>
        \o Sp2 \o <<"3", "s">>

\* a row with blanks around it
RowUnderscore == <<" ", "a", "_", "b">> \o Sp2 \o <<"1", "n", " ">>

RowX4 ==
    <<"X">> \o Sp2 \o <<"7", "s">> \o Sp2 \o <<"p", "2", "n", "9", "m">>
        \o Sp2 \o <<"1", "m">> \o Sp2 \o <<"2", "u">>

RowEmpty == <<>>

RowBadNumber == <<"Y">> \o Sp2 \o <<"1", ".", "2", ".", "3", "n">>

HeaderPool == {HdrABC, HdrA, HdrNoBar, HdrDup}

RowPool == {RowX, RowSlash, RowUnderscore, RowX4, RowEmpty, RowBadNumber}

\* the first six lines: benchstat's own, under each header row, and lines
\* that all look like benchmark rows, under the three-column header row
Layouts ==
    {<<PlainConfigLine, PlainConfigLine, PlainConfigLine, PlainConfigLine, h,
       PlainUnitLine>> : h \in HeaderPool}
    \cup {<<RowLikeConfigLine, RowLikeConfigLine, RowLikeConfigLine,
            RowLikeConfigLine, HdrABC, RowLikeUnitLine>>}

\* every line followed by a line break, as benchstat prints them
RECURSIVE JoinLines(_)
JoinLines(ls) ==
    IF ls = <<>> THEN <<>> ELSE Head(ls) \o <<"\n">> \o JoinLines(Tail(ls))

RowSeqs == UNION {[1..n -> RowPool] : n \in 0..MaxRows}

FullReports == {JoinLines(top \o rows) : top \in Layouts, rows \in RowSeqs}

\* reports that end before the header row
ShortReports ==
    {JoinLines(<<>>), JoinLines(<<PlainConfigLine, PlainConfigLine>>)}

Reports == FullReports \cup ShortReports

\* ------------------------------------------------------------------------
\* parse_benchstat_output
\* ------------------------------------------------------------------------

\* the report's lines, before any of them is dropped
ReportLines(benchstat_output) == Splitlines(Strip(benchstat_output))

ConfigLines == 4

HeaderLines == 2

SkipConfig(ls) == DropFirst(ls, ConfigLines)

\* only the header row is dropped
SkipHeader_HeaderOnly(ls) == DropFirst(ls, 1)

SkipHeader(ls) == DropFirst(ls, HeaderLines)

\* [col.strip() for col in header.split(bar)[1:-1]]
VersionHeaders(header) ==
    LET cols == Split(header, "|")
        mid  == Slice(cols, 2, Len(cols) - 1)
    IN  [k \in 1..Len(mid) |-> Strip(mid[k])]

\* m taken for the micro sign
ToNanos_MilliAsMicro(time_value, time_unit) ==
    IF time_unit = "u" \/ time_unit = "m" THEN Scale(time_value, 3)
    ELSE IF time_unit = "s" THEN Scale(time_value, 9)
    ELSE time_value

\* the if / elif chain on time_unit
ToNanos(time_value, time_unit) ==
    IF time_unit = "u" THEN Scale(time_value, 3)
    ELSE IF time_unit = "m" THEN Scale(time_value, 6)
    ELSE IF time_unit = "s" THEN Scale(time_value, 9)
    ELSE time_value

VersionPrefix == <<"V", "e", "r", "s", "i", "o", "n", " ">>

\* the synthesized label numbered from 0
Interpreter_FromZero(version_headers, i) ==
    IF i < Len(version_headers) THEN version_headers[i + 1]
    ELSE VersionPrefix \o IntToStr(i)

\* version_headers[i] if i < len(version_headers) else f"Version {i + 1}"
Interpreter(version_headers, i) ==
    IF i < Len(version_headers) THEN version_headers[i + 1]
    ELSE VersionPrefix \o IntToStr(i + 1)

\* i advanced for every field, matching or not
ResultStep_CountsEveryField(st, result, version_headers) ==
    LET match == ReSearch(result) IN
    IF ~match.found THEN [st EXCEPT !.i = @ + 1]
    ELSE IF ~FloatOk(match.group1) THEN [st EXCEPT !.raised = TRUE]
    ELSE LET time_value == ToNanos(Float(match.group1), match.group2)
             interpreter == Interpreter(version_headers, st.i)
         IN  [st EXCEPT !.benchmark_data = DictSet(@, interpreter, time_value),
                        !.i = @ + 1]

\* one iteration of "for result in parts[1:]"; st holds i, benchmark_data
\* and whether float() has raised
ResultStep(st, result, version_headers) ==
    LET match == ReSearch(result) IN
    IF ~match.found THEN st
    ELSE IF ~FloatOk(match.group1) THEN [st EXCEPT !.raised = TRUE]
    ELSE LET time_value == ToNanos(Float(match.group1), match.group2)
             interpreter == Interpreter(version_headers, st.i)
         IN  [st EXCEPT !.benchmark_data = DictSet(@, interpreter, time_value),
                        !.i = @ + 1]

RECURSIVE ResultLoop(_, _, _)
ResultLoop(st, results, version_headers) ==
    IF results = <<>> \/ st.raised THEN st
    ELSE ResultLoop(ResultStep(st, Head(results), version_headers),
                    Tail(results), version_headers)

\* the body of "for line in lines" up to the store into data
ParseLine(ln, version_headers) ==
    LET parts == ReSplit(Strip(ln))
        st    == ResultLoop([i |-> 0, benchmark_data |-> <<>>, raised |-> FALSE],
                            Tail(parts), version_headers)
    IN  [benchmark_name |-> parts[1], benchmark_data |-> st.benchmark_data,
         i |-> st.i, raised |-> st.raised]

\* ------------------------------------------------------------------------
\* plot_benchmarks
\* ------------------------------------------------------------------------

\* [color_map(i / num_colors) for i in range(num_colors)]; a colour is the
\* fraction <<i, num_colors>> handed to the colour map
GenerateColors(num_colors) == [k \in 1..num_colors |-> <<k - 1, num_colors>>]

\* f'{x:.3f}': x rounded to a whole number of thousandths, ties to even
Round3(t) ==
    IF t[2] >= -3 THEN t[1] * Pow10(t[2] + 3)
    ELSE LET p == Pow10(-3 - t[2])
             q == t[1] \div p
             r == t[1] % p
         IN  IF 2 * r > p \/ (2 * r = p /\ q % 2 = 1) THEN q + 1 ELSE q

\* the if / elif chain that builds the text above a bar
BarLabel(time) ==
    IF GreaterThanPow10(time, 9)
    THEN [thousandths |-> Round3(Scale(time, -9)), unit |-> <<"s">>]
    ELSE IF GreaterThanPow10(time, 6)
    THEN [thousandths |-> Round3(Scale(time, -6)), unit |-> <<"m", "s">>]
    ELSE IF GreaterThanPow10(time, 3)
    THEN [thousandths |-> Round3(Scale(time, -3)), unit |-> <<"u", "s">>]
    ELSE [thousandths |-> Round3(time), unit |-> <<"n", "s">>]

\* a lookup that answers 0 for an absent interpreter
Lookup_DefaultsToZero(readings, interpreter) ==
    IF DictHas(readings, interpreter)
    THEN [found |-> TRUE, value |-> DictGet(readings, interpreter)]
    ELSE [found |-> TRUE, value |-> <<0, 0>>]

\* data[benchmark][interpreter]: raises KeyError for an absent interpreter
Lookup(readings, interpreter) ==
    IF DictHas(readings, interpreter)
    THEN [found |-> TRUE, value |-> DictGet(readings, interpreter)]
    ELSE [found |-> FALSE]

\* whether the list comprehension for times finds every interpreter
TimesOk(readings, interps) ==
    \A k \in 1..Len(interps) : Lookup(readings, interps[k]).found

\* [data[benchmark][interpreter] for interpreter in interpreters]
Times(readings, interps) ==
    [k \in 1..Len(interps) |-> Lookup(readings, interps[k]).value]

\* what is drawn between ax.bar and ax.set_title
Chart(benchmark, interps, ts, cols) ==
    [title  |-> benchmark,
     bars   |-> [k \in 1..Len(interps) |->
                    [x |-> interps[k], height |-> ts[k], color |-> cols[k],
                     label |-> BarLabel(ts[k])]],
     legend |-> interps]

PngSuffix == <<".", "p", "n", "g">>

\* f'{benchmark.replace("/", "_")}.png'
FileName(benchmark) == Replace(benchmark, "/", "_") \o PngSuffix

\* ------------------------------------------------------------------------
\* The run of main()
\* ------------------------------------------------------------------------

VARIABLES
    pc,                \* where main() is
    error,             \* the exception that ended the run, or "none"
    benchstat_output,  \* the text read from stdin
    lines,             \* the rows "for line in lines" iterates over
    version_headers,
    row,               \* how many rows the loop has taken
    benchmark_name,    \* locals of the loop body, as the last iteration
    benchmark_data,    \*   left them
    i,
    data,              \* the table under construction, then the argument
                       \*   of plot_benchmarks
    benchmarks,
    interpreters,
    colors,
    b,                 \* index into benchmarks of the current iteration
    times,
    figures,           \* figures open in pyplot, named by their iteration
    files              \* the images in the working directory, by name

vars ==
    <<pc, error, benchstat_output, lines, version_headers, row,
      benchmark_name, benchmark_data, i, data, benchmarks, interpreters,
      colors, b, times, figures, files>>

parseVars ==
    <<lines, version_headers, row, benchmark_name, benchmark_data, i, data>>

plotVars == <<benchmarks, interpreters, colors, b, times, figures, files>>

Init ==
    /\ benchstat_output \in Reports
    /\ pc = "start"
    /\ error = "none"
    /\ lines = <<>>
    /\ version_headers = <<>>
    /\ row = 0
    /\ benchmark_name = <<>>
    /\ benchmark_data = <<>>
    /\ i = 0
    /\ data = <<>>
    /\ benchmarks = <<>>
    /\ interpreters = <<>>
    /\ colors = <<>>
    /\ b = 0
    /\ times = <<>>
    /\ figures = {}
    /\ files = <<>>

\* lines 9-18: the report has a header row
ParseHeader ==
    /\ pc = "start"
    /\ LET rest == SkipConfig(ReportLines(benchstat_output)) IN
       /\ rest # <<>>
       /\ version_headers' = VersionHeaders(rest[1])
       /\ lines' = SkipHeader(rest)
    /\ data' = <<>>
    /\ pc' = "rows"
    /\ UNCHANGED <<error, benchstat_output, row, benchmark_name,
                   benchmark_data, i>>
    /\ UNCHANGED plotVars

\* line 12: lines[0] of an empty list
ParseHeaderIndexError ==
    /\ pc = "start"
    /\ SkipConfig(ReportLines(benchstat_output)) = <<>>
    /\ pc' = "failed"
    /\ error' = "IndexError"
    /\ UNCHANGED <<benchstat_output>>
    /\ UNCHANGED parseVars
    /\ UNCHANGED plotVars

\* lines 19-44: one benchmark row
ParseRow ==
    /\ pc = "rows"
    /\ row < Len(lines)
    /\ LET r == ParseLine(lines[row + 1], version_headers) IN
       /\ ~r.raised
       /\ benchmark_name' = r.benchmark_name
       /\ benchmark_data' = r.benchmark_data
       /\ i' = r.i
       /\ data' = DictSet(data, r.benchmark_name, r.benchmark_data)
    /\ row' = row + 1
    /\ UNCHANGED <<pc, error, benchstat_output, lines, version_headers>>
    /\ UNCHANGED plotVars

\* line 30: float() raises inside the row
ParseRowValueError ==
    /\ pc = "rows"
    /\ row < Len(lines)
    /\ LET r == ParseLine(lines[row + 1], version_headers) IN
       /\ r.raised
       /\ benchmark_name' = r.benchmark_name
       /\ benchmark_data' = r.benchmark_data
       /\ i' = r.i
    /\ row' = row + 1
    /\ pc' = "failed"
    /\ error' = "ValueError"
    /\ UNCHANGED <<benchstat_output, lines, version_headers, data>>
    /\ UNCHANGED plotVars

\* lines 46, 100, 53-56: the table is returned and handed to plot_benchmarks
PlotStart ==
    /\ pc = "rows"
    /\ row = Len(lines)
    /\ data # <<>>
    /\ benchmarks' = DictKeys(data)
    /\ interpreters' = DictKeys(data[1][2])
    /\ colors' = GenerateColors(Len(data[1][2]))
    /\ b' = 1
    /\ pc' = "loop"
    /\ UNCHANGED <<error, benchstat_output, times, figures, files>>
    /\ UNCHANGED parseVars

\* line 54: benchmarks[0] of an empty table
PlotStartIndexError ==
    /\ pc = "rows"
    /\ row = Len(lines)
    /\ data = <<>>
    /\ pc' = "failed"
    /\ error' = "IndexError"
    /\ UNCHANGED <<benchstat_output>>
    /\ UNCHANGED parseVars
    /\ UNCHANGED plotVars

\* lines 58-59: the next benchmark; plt.subplots opens its figure
Subplots ==
    /\ pc = "loop"
    /\ b <= Len(benchmarks)
    /\ figures' = figures \cup {b}
    /\ pc' = "figure"
    /\ UNCHANGED <<error, benchstat_output, benchmarks, interpreters, colors,
                   b, times, files>>
    /\ UNCHANGED parseVars

\* line 61
ReadTimes ==
    /\ pc = "figure"
    /\ TimesOk(DictGet(data, benchmarks[b]), interpreters)
    /\ times' = Times(DictGet(data, benchmarks[b]), interpreters)
    /\ pc' = "times"
    /\ UNCHANGED <<error, benchstat_output, benchmarks, interpreters, colors,
                   b, figures, files>>
    /\ UNCHANGED parseVars

\* line 61: the benchmark has no reading for one of the interpreters
ReadTimesKeyError ==
    /\ pc = "figure"
    /\ ~TimesOk(DictGet(data, benchmarks[b]), interpreters)
    /\ pc' = "failed"
    /\ error' = "KeyError"
    /\ UNCHANGED <<benchstat_output>>
    /\ UNCHANGED parseVars
    /\ UNCHANGED plotVars

\* lines 63-94: the chart is drawn and saved, replacing a file of that name
SaveFig ==
    /\ pc = "times"
    /\ files' = DictSet(files, FileName(benchmarks[b]),
                        Chart(benchmarks[b], interpreters, times,
                              Slice(colors, 1, Len(interpreters))))
    /\ pc' = "saved"
    /\ UNCHANGED <<error, benchstat_output, benchmarks, interpreters, colors,
                   b, times, figures>>
    /\ UNCHANGED parseVars

\* line 95: plt.close(fig), and on to the next benchmark
CloseFig ==
    /\ pc = "saved"
    /\ figures' = figures \ {b}
    /\ b' = b + 1
    /\ pc' = "loop"
    /\ UNCHANGED <<error, benchstat_output, benchmarks, interpreters, colors,
                   times, files>>
    /\ UNCHANGED parseVars

\* the loop is exhausted and main() returns
PlotReturn ==
    /\ pc = "loop"
    /\ b > Len(benchmarks)
    /\ pc' = "done"
    /\ UNCHANGED <<error, benchstat_output>>
    /\ UNCHANGED parseVars
    /\ UNCHANGED plotVars

Next ==
    \/ ParseHeader
    \/ ParseHeaderIndexError
    \/ ParseRow
    \/ ParseRowValueError
    \/ PlotStart
    \/ PlotStartIndexError
    \/ Subplots
    \/ ReadTimes
    \/ ReadTimesKeyError
    \/ SaveFig
    \/ CloseFig
    \/ PlotReturn

Spec == Init /\ [][Next]_vars

TypeOK ==
    /\ pc \in {"start", "rows", "loop", "figure", "times", "saved", "done",
               "failed"}
    /\ error \in {"none", "IndexError", "ValueError", "KeyError"}
    /\ (pc = "failed") <=> (error # "none")
    /\ row \in 0..Len(lines)

\* ------------------------------------------------------------------------
\* Vocabulary of the properties
\* ------------------------------------------------------------------------

\* f[p..q] is a run of number characters followed by a unit character
TimeAt(f, p, q) ==
    /\ p <= q
    /\ q < Len(f)
    /\ \A k \in p..q : f[k] \in NumChars
    /\ f[q + 1] \in UnitChars

HasTime(f) == \E p \in 1..Len(f) : \E q \in p..Len(f) : TimeAt(f, p, q)

\* where the first time of the field starts and ends
FirstTimeStart(f) ==
    CHOOSE p \in 1..Len(f) :
        /\ \E q \in p..Len(f) : TimeAt(f, p, q)
        /\ \A p2 \in 1..(p - 1) : \A q \in p2..Len(f) : ~TimeAt(f, p2, q)

FirstTimeEnd(f) ==
    CHOOSE q \in FirstTimeStart(f)..Len(f) : TimeAt(f, FirstTimeStart(f), q)

FirstTimeNumber(f) == SubSeq(f, FirstTimeStart(f), FirstTimeEnd(f))

FirstTimeUnit(f) == f[FirstTimeEnd(f) + 1]

\* 1, 1e3, 1e6, 1e9 as powers of ten
UnitExponent(u) == CASE u = "n" -> 0 [] u = "u" -> 3 [] u = "m" -> 6 [] u = "s" -> 9

\* the nanoseconds the first time of the field stands for
ExpectedNanos(f) == Scale(Float(FirstTimeNumber(f)), UnitExponent(FirstTimeUnit(f)))

\* the first field of a line, the benchmark's name
NameOf(ln) == ReSplit(Strip(ln))[1]

\* the fields of a line after the name
FieldsOf(ln) == Tail(ReSplit(Strip(ln)))

\* the fields of the row the loop took last that hold a time, in row order
Matched == SelectSeq(FieldsOf(lines[row]), HasTime)

\* the last iteration of the row loop ran to its end
RowParsed == row > 0 /\ error # "ValueError"

\* rows of lines whose readings have been stored
RowsStored == IF error = "ValueError" THEN row - 1 ELSE row

\* the label the k-th matched field (k from 1) is due
DueLabel(k) ==
    IF k <= Len(version_headers) THEN version_headers[k]
    ELSE VersionPrefix \o IntToStr(k)

\* none of the matched fields k+1 .. m of the row is due the same label
LastWithLabel(k, m) == \A k2 \in (k + 1)..m : DueLabel(k2) # DueLabel(k)

KeySet(d) == {d[k][1] : k \in 1..Len(d)}

KeyIndex(d, key) == CHOOSE k \in 1..Len(d) : d[k][1] = key

Min(x, y) == IF x <= y THEN x ELSE y

\* t >= 10^k
AtLeastPow10(t, k) == t[1] > 0 /\ NumDigits(t[1]) + t[2] - 1 >= k

NameA == <<"A">>

NameB == <<"B">>

NameX == <<"X">>

\* ------------------------------------------------------------------------
\* C1
\* ------------------------------------------------------------------------

\* C1: after a row is parsed, the k-th field of the row that holds a time
\* (counting matching fields only, from the start of the row) is found
\* under header k for every k within the header list, whatever its place
\* in the row; when the row has no more matching fields than there are
\* headers, the keys of its readings are exactly the first headers, as
\* many as there are matching fields.
C1_HeaderAlignment ==
    RowParsed =>
        \A mf \in {Matched} :
        /\ \A k \in 1..Min(Len(mf), Len(version_headers)) :
              /\ DictHas(benchmark_data, version_headers[k])
              /\ LastWithLabel(k, Len(mf)) =>
                    DictGet(benchmark_data, version_headers[k])
                        = ExpectedNanos(mf[k])
        /\ Len(mf) <= Len(version_headers) =>
              KeySet(benchmark_data) = {version_headers[k] : k \in 1..Len(mf)}

\* headers A, B, C and a row whose first field holds no time and whose
\* next two do: the readings are under A and B
C1_Witness ==
    /\ RowParsed
    /\ Len(version_headers) = 3
    /\ Len(FieldsOf(lines[row])) = 3
    /\ ~HasTime(FieldsOf(lines[row])[1])
    /\ Len(Matched) = 2
    /\ DictKeys(benchmark_data) = <<NameA, NameB>>

\* ------------------------------------------------------------------------
\* C2
\* ------------------------------------------------------------------------

\* C2: after a row with m matching fields is parsed under h < m headers,
\* the readings hold the labels "Version h+1", ..., "Version m", in that
\* order, each with the value of the matching field of that position, and
\* every header is a key as well.
C2_SynthesizedLabels ==
    RowParsed =>
        \A mf \in {Matched} :
        Len(mf) > Len(version_headers) =>
            /\ \A k \in (Len(version_headers) + 1)..Len(mf) :
                  /\ DictHas(benchmark_data, VersionPrefix \o IntToStr(k))
                  /\ DictGet(benchmark_data, VersionPrefix \o IntToStr(k))
                        = ExpectedNanos(mf[k])
                  /\ \A k2 \in (k + 1)..Len(mf) :
                        KeyIndex(benchmark_data, VersionPrefix \o IntToStr(k))
                            < KeyIndex(benchmark_data,
                                       VersionPrefix \o IntToStr(k2))
            /\ \A k \in 1..Len(version_headers) :
                  DictHas(benchmark_data, version_headers[k])

\* one header and four matching fields: Version 2, 3 and 4 follow it
C2_Witness ==
    /\ RowParsed
    /\ Len(version_headers) = 1
    /\ Len(Matched) = 4
    /\ DictKeys(benchmark_data)
          = <<NameA, VersionPrefix \o <<"2">>, VersionPrefix \o <<"3">>,
              VersionPrefix \o <<"4">>>>

\* ------------------------------------------------------------------------
\* C3
\* ------------------------------------------------------------------------

\* C3: after a row is parsed, every field that holds a time is stored as
\* the number of its first time multiplied by 1, 1e3, 1e6 or 1e9 for the
\* unit n, micro, m or s that follows that number; later times of the
\* same field do not count.
C3_UnitConversion ==
    RowParsed =>
        \A mf \in {Matched} :
        \A k \in 1..Len(mf) :
            LastWithLabel(k, Len(mf)) =>
                /\ DictHas(benchmark_data, DueLabel(k))
                /\ DictGet(benchmark_data, DueLabel(k))
                      = Scale(Float(FirstTimeNumber(mf[k])),
                              UnitExponent(FirstTimeUnit(mf[k])))

\* a row with all four units, one of its fields holding two times
C3_Witness ==
    /\ RowParsed
    /\ Len(version_headers) = 3
    /\ {FirstTimeUnit(Matched[k]) : k \in 1..Len(Matched)} = UnitChars
    /\ \E k \in 1..Len(Matched) :
          /\ HasTime(DropFirst(Matched[k], FirstTimeEnd(Matched[k]) + 1))
          /\ DictGet(benchmark_data, DueLabel(k)) = <<2, 0>>
    /\ \E k \in 1..Len(Matched) :
          DictGet(benchmark_data, DueLabel(k)) = <<7, 9>>

\* ------------------------------------------------------------------------
\* C4
\* ------------------------------------------------------------------------

\* the unit of the largest threshold the duration reaches
InclusiveUnit(t) ==
    IF AtLeastPow10(t, 9) THEN <<"s">>
    ELSE IF AtLeastPow10(t, 6) THEN <<"m", "s">>
    ELSE IF AtLeastPow10(t, 3) THEN <<"u", "s">>
    ELSE <<"n", "s">>

\* C4: the label above every bar of every saved chart carries the unit of
\* the largest threshold its duration reaches, a duration equal to 1e3,
\* 1e6 or 1e9 reaching that threshold.
C4_InclusiveThresholds ==
    \A f \in 1..Len(files) :
        \A k \in 1..Len(files[f][2].bars) :
            files[f][2].bars[k].label.unit
                = InclusiveUnit(files[f][2].bars[k].height)

\* ------------------------------------------------------------------------
\* C5
\* ------------------------------------------------------------------------

\* the header row has been read
HeaderRead == pc # "start" /\ Len(ReportLines(benchstat_output)) >= 5

\* C5 as written: the header row is line 5 of the report and no line
\* before line 8 gives the table a key.
C5_FirstRowIsLine8 ==
    HeaderRead =>
        \A report \in {ReportLines(benchstat_output)} :
        /\ version_headers = VersionHeaders(report[5])
        /\ KeySet(data) \subseteq {NameOf(report[j]) : j \in 8..Len(report)}

\* C5 amended: the header row is line 5 of the report, and the keys of the
\* table are the names of the lines from line 7 on that the row loop has
\* stored; lines 1 to 6 give the table no key.
C5_FirstRowIsLine7 ==
    HeaderRead =>
        \A report \in {ReportLines(benchstat_output)} :
        /\ version_headers = VersionHeaders(report[5])
        /\ 6 + RowsStored <= Len(report)
        /\ KeySet(data) = {NameOf(report[6 + j]) : j \in 1..RowsStored}

\* a finished run on a report whose lines 1 to 6 all look like rows
C5_Witness ==
    /\ pc = "done"
    /\ NameOf(ReportLines(benchstat_output)[1]) = <<"P">>
    /\ HasTime(FieldsOf(ReportLines(benchstat_output)[6])[1])
    /\ Len(data) = 2
    /\ NameOf(ReportLines(benchstat_output)[7]) = data[1][1]

\* ------------------------------------------------------------------------
\* C6
\* ------------------------------------------------------------------------

\* C6: when plot_benchmarks has completed there are as many image files
\* as the table has benchmarks, and each benchmark's chart is in the file
\* named after it, "/" replaced by "_", with ".png" appended.
C6_OneFilePerBenchmark ==
    pc = "done" =>
        /\ Len(files) = Len(benchmarks)
        /\ \A k \in 1..Len(benchmarks) :
              /\ DictHas(files, Replace(benchmarks[k], "/", "_") \o PngSuffix)
              /\ DictGet(files, Replace(benchmarks[k], "/", "_") \o PngSuffix).title
                    = benchmarks[k]

\* ------------------------------------------------------------------------
\* C7
\* ------------------------------------------------------------------------

InPlot == pc \in {"loop", "figure", "times", "saved", "done"} \/ error = "KeyError"

\* the k-th benchmark of the table has no reading for some variant of the
\* first benchmark
Lacks(k) ==
    \E v \in 1..Len(data[1][2]) : ~DictHas(data[k][2], data[1][2][v][1])

\* C7: the bars of every saved chart are the variants of the first
\* benchmark, in the order of its readings; a benchmark that lacks one of
\* them ends the run with a lookup failure in its own iteration, and no
\* chart is saved for it or for a benchmark after it.
C7_OrderingAndAbort ==
    InPlot =>
        /\ interpreters = DictKeys(data[1][2])
        /\ \A f \in 1..Len(files) :
              [k \in 1..Len(files[f][2].bars) |-> files[f][2].bars[k].x]
                  = DictKeys(data[1][2])
        /\ \A k \in 1..Len(data) :
              (\E k2 \in 1..k : Lacks(k2)) =>
                  \A f \in 1..Len(files) : files[f][2].title # data[k][1]
        /\ pc \in {"times", "saved"} => ~Lacks(b)
        /\ pc = "done" => \A k \in 1..Len(data) : ~Lacks(k)
        /\ error = "KeyError" =>
              /\ Lacks(b)
              /\ \A k \in 1..(b - 1) : ~Lacks(k)

\* the second of three benchmarks lacks a variant: one chart saved, the
\* run ended in its iteration
C7_Witness ==
    /\ error = "KeyError"
    /\ Len(benchmarks) = 3
    /\ b = 2
    /\ Len(files) = 1
    /\ files[1][2].title = benchmarks[1]
    /\ Len(interpreters) = 2

\* ------------------------------------------------------------------------
\* C8
\* ------------------------------------------------------------------------

\* the names of the rows stored so far, by row
StoredNames == [j \in 1..RowsStored |-> NameOf(lines[j])]

\* the rows stored so far that carry the name
RowsNamed(name) == {j \in 1..RowsStored : NameOf(lines[j]) = name}

Smallest(S) == CHOOSE x \in S : \A y \in S : x <= y

Largest(S) == CHOOSE x \in S : \A y \in S : x >= y

\* C8: every benchmark name of the rows stored so far is a key of the
\* table exactly once; its readings are those of the last row of that
\* name alone; the keys are in the order in which the names first came.
C8_LastRowWinsFirstOrder ==
    \A names \in {StoredNames} :
        \A first \in {[k \in 1..Len(data) |->
                         Smallest({j \in 1..RowsStored : names[j] = data[k][1]})]} :
            /\ KeySet(data) = {names[j] : j \in 1..RowsStored}
            /\ \A k \in 1..Len(data) : \A k2 \in 1..Len(data) :
                  data[k][1] = data[k2][1] => k = k2
            /\ \A k \in 1..Len(data) :
                  data[k][2]
                      = ParseLine(lines[Largest({j \in 1..RowsStored :
                                                    names[j] = data[k][1]})],
                                  version_headers).benchmark_data
            /\ \A k \in 1..Len(data) : \A k2 \in (k + 1)..Len(data) :
                  first[k] < first[k2]

\* X, another benchmark, X again: X stays first and keeps only the two
\* readings of its last row, not the four of its first
C8_Witness ==
    /\ RowsStored = 3
    /\ Len(data) = 2
    /\ data[1][1] = NameX
    /\ RowsNamed(NameX) = {1, 3}
    /\ Len(ParseLine(lines[1], version_headers).benchmark_data) = 4
    /\ DictKeys(data[1][2]) = <<NameA, NameB>>

\* ------------------------------------------------------------------------
\* C9
\* ------------------------------------------------------------------------

\* C9: the keys of the table are the names of the non-empty lines among
\* the rows stored so far; an empty line adds no key.
C9_EmptyLinesAddNoKey ==
    KeySet(data)
        = {NameOf(lines[j]) : j \in {r \in 1..RowsStored : Strip(lines[r]) # <<>>}}

\* ------------------------------------------------------------------------
\* C10
\* ------------------------------------------------------------------------

\* C10: at most one figure is open, it is the figure of the current
\* iteration, and none is open between iterations or once the run has
\* ended, be it by the last save or by a failure.
C10_FigureScopedToIteration ==
    /\ Cardinality(figures) <= 1
    /\ figures \subseteq {b}
    /\ pc \in {"loop", "done", "failed"} => figures = {}

====
